---- MODULE Spec2Model ----
(***************************************************************************)
(* Crawl orchestration engine of seo-auditor: the worker pool of           *)
(* crawler.js (runWorkerPool / processUrl / initSession / resumeSession /  *)
(* crawl) over the SQLite store of db/index.js.                            *)
(*                                                                         *)
(* Granularity: one action per event-loop task.  A macrotask (an HTTP      *)
(* response arriving, a crawl-delay timer, SIGINT) runs only when the      *)
(* microtask queue is empty; the promise reactions .then / .catch /        *)
(* .finally of each unit of work are microtasks run in FIFO order.         *)
(***************************************************************************)
EXTENDS Integers, Sequences, FiniteSets, TLC

\* ------------------------------------------------------------------ bounds
MaxConcurrency == 2      \* config.concurrency ranges over 1..MaxConcurrency
MaxRuns == 2             \* runs of one session: the fresh run plus resumed runs
MaxCrawlDelay == 1       \* robots.txt Crawl-delay ranges over 0..MaxCrawlDelay (0: none)

\* ------------------------------------------------------------------ values
Null == "null"           \* JS null for string-valued fields
NullInt == -1            \* JS null for number-valued fields
NaN == -999              \* JS not-a-number, as parseInt gives for an unparsable string

SiteHost == "site"
OtherHost == "other"

Url(h, p) == [host |-> h, path |-> p]
NoUrl == Url(Null, 0)
SiteRoot == Url(SiteHost, 0)         \* siteUrl + '/'
P1 == Url(SiteHost, 1)
P2 == Url(SiteHost, 2)
P3 == Url(SiteHost, 3)
Ext == Url(OtherHost, 0)

\* A Location header or an href attribute: absent, unparsable, relative or absolute.
NoRef == [kind |-> "none", host |-> Null, path |-> 0]
BadRef == [kind |-> "bad", host |-> Null, path |-> 0]
Rel(p) == [kind |-> "rel", host |-> Null, path |-> p]
Abs(h, p) == [kind |-> "abs", host |-> h, path |-> p]

\* new URL(ref, base): the absolute URL, or a TypeError for an unparsable ref.
Throws == Url("TypeError", 0)
NewURL(ref, base) ==
  CASE ref.kind = "abs" -> Url(ref.host, ref.path)
    [] ref.kind = "rel" -> Url(base.host, ref.path)
    [] OTHER -> Throws

\* ------------------------------------------------------------------ sequences
RECURSIVE SeqToSet(_)
SeqToSet(s) == IF s = <<>> THEN {} ELSE {Head(s)} \cup SeqToSet(Tail(s))

RECURSIVE SelectSeqBy(_, _)
\* Array.prototype.filter over link records keeping the internal ones
SelectSeqBy(s, ext) ==
  IF s = <<>> THEN <<>>
  ELSE IF Head(s).is_external = ext
       THEN <<Head(s)>> \o SelectSeqBy(Tail(s), ext)
       ELSE SelectSeqBy(Tail(s), ext)

\* All orderings of a finite set of records as sequences.
Perms(S) ==
  {f \in [1..Cardinality(S) -> S] : \A i, j \in 1..Cardinality(S) : i # j => f[i] # f[j]}

\* ------------------------------------------------------------------ Db (db/index.js)
\* The store: sessions (indexed by id), pages, links and images rows, and the
\* open/closed state of the connection handle.
NewDb == [sessions |-> <<>>, pages |-> {}, links |-> {}, images |-> {}, closed |-> FALSE]

createSession(d) ==
  [d EXCEPT !.sessions = Append(@, [status |-> "running", completed_at |-> FALSE,
                                    total_pages |-> NullInt])]

\* sessions.completed_at is modelled by whether it is set (datetime('now')) or NULL
updateSessionStatus(d, sessionId, status) ==
  IF status \in {"complete", "interrupted"}
  THEN LET count == Cardinality({r \in d.pages : r.session_id = sessionId /\ r.status = "crawled"})
       IN [d EXCEPT !.sessions[sessionId] =
             [status |-> status, completed_at |-> TRUE, total_pages |-> count]]
  ELSE [d EXCEPT !.sessions[sessionId].status = status]

\* getLatestInterruptedSession ordered by id ASC: the oldest interrupted session
getEarliestInterruptedSession(d) ==
  LET ids == {i \in 1..Len(d.sessions) : d.sessions[i].status = "interrupted"}
  IN IF ids = {} THEN 0 ELSE CHOOSE i \in ids : \A j \in ids : i <= j

\* id of the most recent interrupted session, 0 when there is none
getLatestInterruptedSession(d) ==
  LET ids == {i \in 1..Len(d.sessions) : d.sessions[i].status = "interrupted"}
  IN IF ids = {} THEN 0 ELSE CHOOSE i \in ids : \A j \in ids : j <= i

getAllPageUrls(d, sessionId) == {r.url : r \in {q \in d.pages : q.session_id = sessionId}}

getLinkTargetUrls(d, sessionId) ==
  {r.row.target_url : r \in {q \in d.links : q.session_id = sessionId}}

PageRow(sessionId, url, depth, in_sitemap) ==
  [session_id |-> sessionId, url |-> url, status |-> "pending", depth |-> depth,
   in_sitemap |-> in_sitemap, status_code |-> NullInt, redirect_url |-> NoUrl,
   content_type |-> Null, is_indexable |-> NullInt, internal_link_count |-> NullInt,
   external_link_count |-> NullInt, image_count |-> NullInt, page_size_bytes |-> NullInt,
   error_message |-> Null]

\* upsertPage with ON CONFLICT DO UPDATE: the later insertion wins
upsertPageReplace(d, sessionId, url, depth, in_sitemap) ==
  [d EXCEPT !.pages = {r \in @ : ~(r.session_id = sessionId /\ r.url = url)}
                        \cup {PageRow(sessionId, url, depth, in_sitemap)}]

\* INSERT ... ON CONFLICT(session_id, url) DO NOTHING
upsertPage(d, sessionId, url, depth, in_sitemap) ==
  IF \E r \in d.pages : r.session_id = sessionId /\ r.url = url
  THEN d
  ELSE [d EXCEPT !.pages = @ \cup {PageRow(sessionId, url, depth, in_sitemap)}]

\* getPendingUrls without the status filter
getPendingUrlsAnyStatus(d, sessionId) ==
  LET rows == {[url |-> r.url, depth |-> r.depth] :
                 r \in {q \in d.pages : q.session_id = sessionId}}
  IN {s \in Perms(rows) : \A i, j \in 1..Len(s) : i < j => s[i].depth <= s[j].depth}

\* SELECT url, depth ... WHERE status = 'pending' ORDER BY depth ASC: the rows of
\* equal depth come in an order SQL leaves unspecified, so every depth-sorted
\* ordering is a possible result.
getPendingUrls(d, sessionId) ==
  LET rows == {[url |-> r.url, depth |-> r.depth] :
                 r \in {q \in d.pages : q.session_id = sessionId /\ q.status = "pending"}}
  IN {s \in Perms(rows) : \A i, j \in 1..Len(s) : i < j => s[i].depth <= s[j].depth}

\* UPDATE pages SET status = 'crawled', <every key of data> WHERE session_id, url
markPageCrawled(d, sessionId, url, data) ==
  [d EXCEPT !.pages =
     {IF r.session_id = sessionId /\ r.url = url
      THEN [f \in DOMAIN r |->
              IF f = "status" THEN "crawled"
              ELSE IF f \in DOMAIN data THEN data[f] ELSE r[f]]
      ELSE r : r \in @}]

\* markPageError with the url dropped from the WHERE clause
markPageErrorAllRows(d, sessionId, url, statusCode, errorMessage) ==
  [d EXCEPT !.pages =
     {IF r.session_id = sessionId
      THEN [r EXCEPT !.status = "error", !.status_code = statusCode,
                     !.error_message = errorMessage]
      ELSE r : r \in @}]

markPageError(d, sessionId, url, statusCode, errorMessage) ==
  [d EXCEPT !.pages =
     {IF r.session_id = sessionId /\ r.url = url
      THEN [r EXCEPT !.status = "error", !.status_code = statusCode,
                     !.error_message = errorMessage]
      ELSE r : r \in @}]

markPageSkipped(d, sessionId, url, reason) ==
  [d EXCEPT !.pages =
     {IF r.session_id = sessionId /\ r.url = url
      THEN [r EXCEPT !.status = "skipped", !.error_message = reason]
      ELSE r : r \in @}]

\* Bulk insert; the AUTOINCREMENT id keeps equal links apart.  failAt = n > 0
\* makes the n-th row's INSERT raise: the inner transaction then rolls back and
\* the error propagates (result.threw).
RECURSIVE insertRows(_, _, _, _)
insertRows(rows, table, sessionId, failAt) ==
  IF rows = <<>> THEN [table |-> table, threw |-> FALSE]
  ELSE IF failAt = 1 THEN [table |-> table, threw |-> TRUE]
  ELSE insertRows(Tail(rows),
                  table \cup {[id |-> Cardinality(table) + 1, session_id |-> sessionId,
                               row |-> Head(rows)]},
                  sessionId, IF failAt > 1 THEN failAt - 1 ELSE 0)

insertLinks(d, sessionId, links, failAt) ==
  LET r == insertRows(links, d.links, sessionId, failAt)
  IN IF r.threw THEN [db |-> d, threw |-> TRUE]
     ELSE [db |-> [d EXCEPT !.links = r.table], threw |-> FALSE]

insertImages(d, sessionId, images, failAt) ==
  LET r == insertRows(images, d.images, sessionId, failAt)
  IN IF r.threw THEN [db |-> d, threw |-> TRUE]
     ELSE [db |-> [d EXCEPT !.images = r.table], threw |-> FALSE]

\* persistPageResult without the enclosing transaction: the writes made before
\* the store raised stay
persistPageResultNoTransaction(d, sessionId, url, pageData, links, images, fault) ==
  LET d1 == markPageCrawled(d, sessionId, url, pageData)
      r2 == IF Len(links) > 0
            THEN insertLinks(d1, sessionId, links, IF fault = "links" THEN Len(links) ELSE 0)
            ELSE [db |-> d1, threw |-> FALSE]
  IN IF r2.threw THEN r2
     ELSE IF Len(images) > 0
     THEN insertImages(r2.db, sessionId, images,
                       IF fault = "images" THEN Len(images) ELSE 0)
     ELSE r2

\* db.transaction(() => { markPageCrawled; insertLinks; insertImages })():
\* COMMIT when the body returns, ROLLBACK to d and rethrow when it raises.
\* fault names where the store fails: "none", or "links" / "images" when the
\* last INSERT into that table raises.
persistPageResult(d, sessionId, url, pageData, links, images, fault) ==
  LET d1 == markPageCrawled(d, sessionId, url, pageData)
      r2 == IF Len(links) > 0
            THEN insertLinks(d1, sessionId, links, IF fault = "links" THEN Len(links) ELSE 0)
            ELSE [db |-> d1, threw |-> FALSE]
      r3 == IF r2.threw THEN r2
            ELSE IF Len(images) > 0
            THEN insertImages(r2.db, sessionId, images,
                              IF fault = "images" THEN Len(images) ELSE 0)
            ELSE r2
  IN IF r3.threw THEN [db |-> d, threw |-> TRUE] ELSE r3

close(d) == [d EXCEPT !.closed = TRUE]

\* ------------------------------------------------------------------ the site (HTTP client outcomes)
\* What axios.get(url) can do: resolve with a response, reject with a response
\* attached (the redirect error of maxRedirects: 0), or reject without one.
Response(settle, response, status, location, contentType, body, hrefs, imgs) ==
  [settle |-> settle, response |-> response, status |-> status, location |-> location,
   content_type |-> contentType, body |-> body, hrefs |-> hrefs, imgs |-> imgs]

Html(hrefs, imgs) == Response("resolve", TRUE, 200, NoRef, "text/html", TRUE, hrefs, imgs)
Pdf == Response("resolve", TRUE, 200, NoRef, "application/pdf", TRUE, <<>>, 0)
\* 200 text/html with an empty body
EmptyHtml == Response("resolve", TRUE, 200, NoRef, "text/html", FALSE, <<>>, 0)
NotFound == Response("resolve", TRUE, 404, NoRef, "text/html", TRUE, <<>>, 0)
NetworkError == Response("reject", FALSE, NullInt, NoRef, Null, FALSE, <<>>, 0)
RedirectThrown(loc) == Response("reject", TRUE, 301, loc, Null, FALSE, <<>>, 0)
RedirectReturned(loc) == Response("resolve", TRUE, 301, loc, Null, FALSE, <<>>, 0)

\* The responses each URL of the modelled site may give to one request.
Site(u) ==
  CASE u = SiteRoot -> {Html(<<Rel(1), Rel(2)>>, 0),
                        Html(<<Rel(1), Abs(OtherHost, 0), BadRef>>, 1),
                        RedirectThrown(Rel(1))}
    [] u = P1 -> {Html(<<Rel(2), Rel(2)>>, 1),
                  RedirectThrown(Abs(SiteHost, 0)),
                  RedirectThrown(Abs(OtherHost, 0)),
                  RedirectThrown(BadRef)}
    [] u = P2 -> {Html(<<>>, 0), Pdf, EmptyHtml, NotFound, NetworkError,
                  RedirectReturned(Rel(1)), RedirectThrown(NoRef)}
    [] OTHER -> {Pdf, Html(<<Rel(0)>>, 0)}

\* The sitemap URL lists the Seed Provider may return, and the sets of URLs
\* robots.txt may disallow.
SitemapMenu == {<<>>, <<P1>>, <<SiteRoot, P2>>}
RobotsMenu == {{}, {P2}}

\* ------------------------------------------------------------------ crawler.js
\* emptyPage with is_indexable defaulting to 0 instead of null
emptyPageNotIndexable(overrides) ==
  overrides @@ [redirect_url |-> NoUrl, content_type |-> Null, is_indexable |-> 0,
                internal_link_count |-> 0, external_link_count |-> 0, image_count |-> 0,
                page_size_bytes |-> NullInt]

emptyPage(overrides) ==
  overrides @@ [redirect_url |-> NoUrl, content_type |-> Null, is_indexable |-> NullInt,
                internal_link_count |-> 0, external_link_count |-> 0, image_count |-> 0,
                page_size_bytes |-> NullInt]

\* fetchPage: the normalized outcome of one axios.get; never throws.
fetchPage(o) ==
  IF o.settle = "resolve"
  THEN [status |-> o.status, content_type |-> o.content_type, data |-> o.body,
        hrefs |-> o.hrefs, imgs |-> o.imgs, redirectUrl |-> NoRef, error |-> Null]
  ELSE IF o.response /\ o.status >= 300 /\ o.status < 400
  THEN [status |-> o.status, content_type |-> o.content_type, data |-> FALSE,
        hrefs |-> <<>>, imgs |-> 0, redirectUrl |-> o.location, error |-> Null]
  ELSE [status |-> NullInt, content_type |-> Null, data |-> FALSE,
        hrefs |-> <<>>, imgs |-> 0, redirectUrl |-> NoRef, error |-> "err.message"]

\* analyze (links): one link per a[href] that parses, resolved against the page
\* URL, external when its host differs from the page's host.
RECURSIVE analyzeLinks(_, _)
analyzeLinks(hrefs, url) ==
  IF hrefs = <<>> THEN <<>>
  ELSE LET target == NewURL(Head(hrefs), url)
       IN IF target = Throws THEN analyzeLinks(Tail(hrefs), url)
          ELSE <<[source_url |-> url, target_url |-> target,
                  is_external |-> (target.host # url.host)]>>
               \o analyzeLinks(Tail(hrefs), url)

RECURSIVE analyzeImages(_, _)
analyzeImages(imgs, url) ==
  IF imgs = 0 THEN <<>>
  ELSE Append(analyzeImages(imgs - 1, url), [page_url |-> url, src |-> imgs])

\* internalTargets without the filter: every link target is returned
RECURSIVE internalTargetsUnfiltered(_, _)
internalTargetsUnfiltered(links, depth) ==
  IF links = <<>> THEN <<>>
  ELSE <<[url |-> Head(links).target_url, depth |-> depth + 1]>>
       \o internalTargetsUnfiltered(Tail(links), depth)

\* links.filter(l => !l.is_external).map(l => ({ url: l.target_url, depth: depth + 1 }))
RECURSIVE internalTargets(_, _)
internalTargets(links, depth) ==
  IF links = <<>> THEN <<>>
  ELSE IF Head(links).is_external THEN internalTargets(Tail(links), depth)
  ELSE <<[url |-> Head(links).target_url, depth |-> depth + 1]>>
       \o internalTargets(Tail(links), depth)

analyze(res, url) ==
  LET links == analyzeLinks(res.hrefs, url)
      images == analyzeImages(res.imgs, url)
  IN [links |-> links, images |-> images, is_indexable |-> 1,
      internal_link_count |-> Len(SelectSeqBy(links, FALSE)),
      external_link_count |-> Len(SelectSeqBy(links, TRUE)),
      image_count |-> Len(images)]

\* data ? Buffer.byteLength(data, 'utf8') : null, every non-empty body of the
\* modelled site being BodyBytes long
BodyBytes == 1
pageSizeBytes(res) == IF res.data THEN BodyBytes ELSE NullInt

\* return resolvedRedirect ? [{ url: resolvedRedirect, depth }] : null
redirectTarget(resolvedRedirect, depth) ==
  IF resolvedRedirect # NoUrl THEN <<[url |-> resolvedRedirect, depth |-> depth]>> ELSE <<>>

\* The value processUrl's promise settles with: rejected, or fulfilled with the
\* list of discovered URLs (null and [] both discover nothing).
Fulfilled(d, newUrls) == [db |-> d, rejected |-> FALSE, newUrls |-> newUrls]
Rejected(d) == [db |-> d, rejected |-> TRUE, newUrls |-> <<>>]

\* processUrl after `await fetchPage`: classify the outcome and persist it.
processFetched(d, sessionId, url, depth, res, fault) ==
  IF res.error # Null
  THEN Fulfilled(markPageError(d, sessionId, url, NullInt, res.error), <<>>)
  ELSE IF res.status >= 300 /\ res.status < 400
  THEN LET resolvedRedirect ==
             IF res.redirectUrl = NoRef THEN NoUrl ELSE NewURL(res.redirectUrl, url)
       IN IF resolvedRedirect = Throws THEN Rejected(d)
          ELSE Fulfilled(
                 markPageCrawled(d, sessionId, url,
                    emptyPage([status_code |-> res.status, redirect_url |-> resolvedRedirect,
                               is_indexable |-> 0])),
                 redirectTarget(resolvedRedirect, depth))
  ELSE IF res.status >= 400
  THEN Fulfilled(markPageError(d, sessionId, url, res.status, "HTTP status"), <<>>)
  ELSE IF res.content_type # "text/html" \/ ~res.data
  THEN Fulfilled(
         markPageCrawled(d, sessionId, url,
            emptyPage([status_code |-> res.status, content_type |-> res.content_type,
                       page_size_bytes |-> pageSizeBytes(res)])),
         <<>>)
  ELSE \* persist(a, pageData) is the HTML branch after `const a = analyze(...)`
       \* and the page row were computed; both are bound once, as values.
       LET page(a) ==
             emptyPage([status_code |-> res.status, redirect_url |-> NoUrl,
                        content_type |-> res.content_type,
                        page_size_bytes |-> pageSizeBytes(res),
                        is_indexable |-> a.is_indexable,
                        internal_link_count |-> a.internal_link_count,
                        external_link_count |-> a.external_link_count,
                        image_count |-> a.image_count])
           settle(a, r) == IF r.threw THEN Rejected(r.db)
                           ELSE Fulfilled(r.db, internalTargets(a.links, depth))
           persist(a, pageData) ==
             settle(a, persistPageResult(d, sessionId, url, pageData,
                                         a.links, a.images, fault))
       IN CHOOSE settled \in UNION {{persist(a, pageData) : pageData \in {page(a)}} :
                                     a \in {analyze(res, url)}} : TRUE

\* ------------------------------------------------------------------ state
VARIABLES
  pc,              \* "init" (inside initSession), "ready" (session initialised), "pool",
                   \* "done", "exited" (SIGINT handled), "killed", "crashed"
  runNo,           \* 1 for the fresh run, +1 per resume
  concurrency,     \* config.concurrency
  crawlDelay,      \* ctx.crawlDelay, 0 for null
  disallowed,      \* robotsData: the URLs isAllowed() rejects
  sessionId,
  seen, queue,     \* the frontier
  activeWorkers, resolved, shuttingDown,
  inflight,        \* units of work suspended in `await fetchPage`
  microtasks,      \* pending promise reactions, FIFO
  timers,          \* pending setTimeout(startNext, ...) callbacks
  db,              \* the Persistence Store (committed state) and its handle
  dispatchLog,     \* history: every processUrl call, in order, with the status its
                   \* page had when it was dispatched
  abandoned,       \* history: dispatch ids in flight when the process ended
  terminalAtResume,\* history: URLs with a terminal page at the latest resume
  resolveCount,    \* history: calls of poolResolve() in this run
  analysed,        \* history: url -> result of the latest analyze() for it
  atShutdown,      \* history: dispatch ids in flight when shuttingDown was set
  lastFetch,       \* history: the unit whose fetch returned last, with what axios did,
                   \* fetchPage gave it and the store fault it met
  workerErrors,    \* history: the units .catch logged as 'Worker error:'
  sitemap,         \* history: the URL list the Seed Provider gave initSession
  exitCode         \* the code the process ended with, NullInt while it runs

vars == <<pc, runNo, concurrency, crawlDelay, disallowed, sessionId, seen, queue,
          activeWorkers, resolved, shuttingDown, inflight, microtasks, timers, db,
          dispatchLog, abandoned, terminalAtResume, resolveCount, analysed, atShutdown,
          lastFetch, workerErrors, sitemap, exitCode>>

\* The part of the state the scheduler's callbacks read and write.
Pool ==
  [seen |-> seen, queue |-> queue, activeWorkers |-> activeWorkers, resolved |-> resolved,
   inflight |-> inflight, microtasks |-> microtasks, timers |-> timers, db |-> db,
   dispatchLog |-> dispatchLog, resolveCount |-> resolveCount]

SetPool(p) ==
  /\ seen' = p.seen
  /\ queue' = p.queue
  /\ activeWorkers' = p.activeWorkers
  /\ resolved' = p.resolved
  /\ inflight' = p.inflight
  /\ microtasks' = p.microtasks
  /\ timers' = p.timers
  /\ db' = p.db
  /\ dispatchLog' = p.dispatchLog
  /\ resolveCount' = p.resolveCount

Job(job, id, url, rejected, newUrls) ==
  [job |-> job, id |-> id, url |-> url, rejected |-> rejected, newUrls |-> newUrls]

\* resolve without the `resolved` guard
resolveUnguarded(p) ==
  [p EXCEPT !.resolved = TRUE, !.resolveCount = @ + 1,
            !.microtasks = Append(@, Job("crawl", 0, NoUrl, FALSE, <<>>))]

\* resolve(): poolResolve() at most once; the awaiting crawl() resumes in a microtask.
resolve(p) ==
  IF ~p.resolved
  THEN [p EXCEPT !.resolved = TRUE, !.resolveCount = @ + 1,
                 !.microtasks = Append(@, Job("crawl", 0, NoUrl, FALSE, <<>>))]
  ELSE p

\* status of the page row of url, "none" when it has no row
pageStatus(d, sid, url) ==
  IF \E r \in d.pages : r.session_id = sid /\ r.url = url
  THEN (CHOOSE r \in d.pages : r.session_id = sid /\ r.url = url).status
  ELSE "none"

\* dispatch without processUrl's robots check: every URL is fetched
dispatchNoRobotsCheck(p) ==
  LET item == Head(p.queue)
      id == Len(p.dispatchLog) + 1
  IN [p EXCEPT !.queue = Tail(@), !.activeWorkers = @ + 1,
               !.dispatchLog = Append(@, [run |-> runNo, url |-> item.url,
                                          depth |-> item.depth,
                                          page_status |->
                                            pageStatus(p.db, sessionId, item.url)]),
               !.inflight = @ \cup {[id |-> id, url |-> item.url, depth |-> item.depth]}]

\* dispatch with queue.pop() for queue.shift(): the newest entry goes first
dispatchFromTail(p) ==
  LET item == p.queue[Len(p.queue)]
      id == Len(p.dispatchLog) + 1
      p1 == [p EXCEPT !.queue = SubSeq(@, 1, Len(@) - 1), !.activeWorkers = @ + 1,
                      !.dispatchLog = Append(@, [run |-> runNo, url |-> item.url,
                                                 depth |-> item.depth,
                                                 page_status |->
                                                   pageStatus(p.db, sessionId, item.url)])]
  IN IF item.url \in disallowed
     THEN [p1 EXCEPT !.db = markPageSkipped(@, sessionId, item.url, "disallowed by robots.txt"),
                     !.microtasks = Append(@, Job("then", id, item.url, FALSE, <<>>))]
     ELSE [p1 EXCEPT !.inflight = @ \cup {[id |-> id, url |-> item.url, depth |-> item.depth]}]

\* One iteration of startNext's loop: queue.shift(), activeWorkers++, and
\* processUrl up to its first await.  A URL robots.txt disallows is marked
\* skipped at once and its promise is already fulfilled (with null) when
\* .then is attached; any other URL is left awaiting its fetch.
dispatch(p) ==
  LET item == Head(p.queue)
      id == Len(p.dispatchLog) + 1
      p1 == [p EXCEPT !.queue = Tail(@), !.activeWorkers = @ + 1,
                      !.dispatchLog = Append(@, [run |-> runNo, url |-> item.url,
                                                 depth |-> item.depth,
                                                 page_status |->
                                                   pageStatus(p.db, sessionId, item.url)])]
  IN IF item.url \in disallowed
     THEN [p1 EXCEPT !.db = markPageSkipped(@, sessionId, item.url, "disallowed by robots.txt"),
                     !.microtasks = Append(@, Job("then", id, item.url, FALSE, <<>>))]
     ELSE [p1 EXCEPT !.inflight = @ \cup {[id |-> id, url |-> item.url, depth |-> item.depth]}]

\* JavaScript's a < b on numbers: false when either side is NaN
Lt(a, b) == a # NaN /\ b # NaN /\ a < b

\* canDispatch with the shutdown flag dropped from the loop condition
canDispatchIgnoringShutdown(p) ==
  p.activeWorkers < concurrency /\ Len(p.queue) > 0

\* canDispatch with the concurrency limit dropped from the loop condition
canDispatchNoLimit(p) ==
  Len(p.queue) > 0 /\ ~shuttingDown

canDispatch(p) ==
  Lt(p.activeWorkers, concurrency) /\ Len(p.queue) > 0 /\ ~shuttingDown

RECURSIVE dispatchLoop(_)
dispatchLoop(p) == IF canDispatch(p) THEN dispatchLoop(dispatch(p)) ELSE p

startNext(p) ==
  LET p1 == dispatchLoop(p)
  IN IF p1.activeWorkers = 0 /\ Len(p1.queue) = 0 THEN resolve(p1) ELSE p1

\* enqueueDiscovered without the seen-set gate
RECURSIVE enqueueDiscoveredNoGate(_, _)
enqueueDiscoveredNoGate(p, newUrls) ==
  IF newUrls = <<>> THEN p
  ELSE LET n == Head(newUrls)
       IN enqueueDiscoveredNoGate(
            [p EXCEPT !.seen = @ \cup {n.url},
                      !.db = upsertPage(@, sessionId, n.url, n.depth, 0),
                      !.queue = Append(@, n)],
            Tail(newUrls))

\* enqueueDiscovered without db.upsertPage: the URL is queued with no page row
RECURSIVE enqueueDiscoveredNoUpsert(_, _)
enqueueDiscoveredNoUpsert(p, newUrls) ==
  IF newUrls = <<>> THEN p
  ELSE LET n == Head(newUrls)
       IN IF n.url \notin p.seen
          THEN enqueueDiscoveredNoUpsert(
                 [p EXCEPT !.seen = @ \cup {n.url},
                           !.queue = Append(@, n)],
                 Tail(newUrls))
          ELSE enqueueDiscoveredNoUpsert(p, Tail(newUrls))

\* .then((newUrls) => ...): every discovered URL not yet seen is marked seen,
\* persisted as a pending page and pushed onto the queue.
RECURSIVE enqueueDiscovered(_, _)
enqueueDiscovered(p, newUrls) ==
  IF newUrls = <<>> THEN p
  ELSE LET n == Head(newUrls)
       IN IF n.url \notin p.seen
          THEN enqueueDiscovered(
                 [p EXCEPT !.seen = @ \cup {n.url},
                           !.db = upsertPage(@, sessionId, n.url, n.depth, 0),
                           !.queue = Append(@, n)],
                 Tail(newUrls))
          ELSE enqueueDiscovered(p, Tail(newUrls))

\* onFinally that never calls startNext when no crawl delay is in effect
onFinallyNoRestart(p) ==
  LET p1 == [p EXCEPT !.activeWorkers = @ - 1]
      p2 == IF crawlDelay > 0 /\ ~shuttingDown
            THEN [p1 EXCEPT !.timers = @ + 1]
            ELSE p1
  IN IF p2.activeWorkers = 0 /\ Len(p2.queue) = 0 THEN resolve(p2) ELSE p2

\* onFinally whose last line tests queue.length alone: the pool resolves
\* while other units are still in flight
onFinallyResolvesOnEmptyQueue(p) ==
  LET p1 == [p EXCEPT !.activeWorkers = @ - 1]
      p2 == IF crawlDelay > 0 /\ ~shuttingDown
            THEN [p1 EXCEPT !.timers = @ + 1]
            ELSE startNext(p1)
  IN IF Len(p2.queue) = 0 THEN resolve(p2) ELSE p2

\* onFinally that ignores the crawl delay: startNext() is called at once
onFinallyNoDelay(p) ==
  LET p1 == [p EXCEPT !.activeWorkers = @ - 1]
      p2 == startNext(p1)
  IN IF p2.activeWorkers = 0 /\ Len(p2.queue) = 0 THEN resolve(p2) ELSE p2

\* .finally(() => ...)
onFinally(p) ==
  LET p1 == [p EXCEPT !.activeWorkers = @ - 1]
      p2 == IF crawlDelay > 0 /\ ~shuttingDown
            THEN [p1 EXCEPT !.timers = @ + 1]
            ELSE startNext(p1)
  IN IF p2.activeWorkers = 0 /\ Len(p2.queue) = 0 THEN resolve(p2) ELSE p2

\* seedUrls without the `!seen.has(url)` test
RECURSIVE seedUrlsNoGate(_, _, _)
seedUrlsNoGate(f, urls, in_sitemap) ==
  IF urls = <<>> THEN f
  ELSE LET url == Head(urls)
       IN seedUrlsNoGate([seen |-> f.seen \cup {url},
                          db |-> upsertPage(f.db, f.sessionId, url, 0, in_sitemap),
                          queue |-> Append(f.queue, [url |-> url, depth |-> 0]),
                          sessionId |-> f.sessionId],
                         Tail(urls), in_sitemap)

\* initSession: seed the frontier with the sitemap URLs, then the site root.
RECURSIVE seedUrls(_, _, _)
seedUrls(f, urls, in_sitemap) ==
  IF urls = <<>> THEN f
  ELSE LET url == Head(urls)
       IN IF url \notin f.seen
          THEN seedUrls([seen |-> f.seen \cup {url},
                         db |-> upsertPage(f.db, f.sessionId, url, 0, in_sitemap),
                         queue |-> Append(f.queue, [url |-> url, depth |-> 0]),
                         sessionId |-> f.sessionId],
                        Tail(urls), in_sitemap)
          ELSE seedUrls(f, Tail(urls), in_sitemap)

\* initSession after its awaits: d holds the session row db.createSession
\* inserted before robots.txt and the sitemap were fetched.
initSession(d, sitemapUrls) ==
  LET f0 == [seen |-> {}, db |-> d, queue |-> <<>>, sessionId |-> Len(d.sessions)]
  IN seedUrls(seedUrls(f0, sitemapUrls, 1), <<SiteRoot>>, 0)

\* lastFetch before any fetch has returned
NoFetch == [id |-> 0, url |-> NoUrl, depth |-> 0, raw |-> NetworkError,
            res |-> fetchPage(NetworkError), fault |-> "none"]

\* main whose .catch logs the fatal error without calling process.exit(1)
processExitFatalUnset(outcome) ==
  CASE outcome = "sigint" -> 130
    [] OTHER -> 0

\* The code the process ends with: process.exit(130) in sigintHandler (Node's
\* default SIGINT disposition gives the same 128 + 2), process.exit(1) in
\* main's .catch, and 0 when crawl() has resolved and the event loop drains.
processExit(outcome) ==
  CASE outcome = "sigint" -> 130
    [] outcome = "fatal" -> 1
    [] OTHER -> 0

\* ------------------------------------------------------------------ initial state
\* A fresh crawl() inside initSession: the session row is created (line 117)
\* and robots.txt and the sitemap are being fetched.  The SIGINT handler is
\* registered only after initSession has returned (line 359).
Init ==
  \E c \in 1..MaxConcurrency :
    /\ pc = "init"
    /\ runNo = 1
    /\ concurrency = c
    /\ crawlDelay = 0
    /\ disallowed = {}
    /\ db = createSession(NewDb)
    /\ sessionId = 1
    /\ seen = {}
    /\ queue = <<>>
    /\ activeWorkers = 0
    /\ resolved = FALSE
    /\ shuttingDown = FALSE
    /\ inflight = {}
    /\ microtasks = <<>>
    /\ timers = 0
    /\ dispatchLog = <<>>
    /\ abandoned = {}
    /\ terminalAtResume = {}
    /\ resolveCount = 0
    /\ analysed = {}
    /\ atShutdown = {}
    /\ lastFetch = NoFetch
    /\ workerErrors = {}
    /\ sitemap = <<>>
    /\ exitCode = NullInt

config == <<concurrency, crawlDelay, disallowed, sessionId, sitemap>>
history == <<abandoned, terminalAtResume, analysed, atShutdown, lastFetch, workerErrors>>

\* ------------------------------------------------------------------ actions
\* initSession's fetches of robots.txt and the sitemap return: lines 120-147,
\* then crawl() derives the crawl delay (line 345).
InitSession ==
  /\ pc = "init"
  /\ \E sitemapUrls \in SitemapMenu, delay \in 0..MaxCrawlDelay, robots \in RobotsMenu :
       LET f == initSession(db, sitemapUrls)
       IN /\ crawlDelay' = delay
          /\ disallowed' = robots
          /\ sessionId' = f.sessionId
          /\ seen' = f.seen
          /\ queue' = f.queue
          /\ db' = f.db
          /\ sitemap' = sitemapUrls
  /\ pc' = "ready"
  /\ UNCHANGED <<exitCode, runNo, concurrency, activeWorkers, resolved, shuttingDown, inflight,
                 microtasks, timers, dispatchLog, resolveCount, history>>

\* SIGINT while initSession awaits: no handler is registered yet, so the
\* default disposition ends the process (Node exits with 128 + 2); nothing is
\* written.
SigintDuringInit ==
  /\ pc = "init"
  /\ pc' = "killed"
  /\ exitCode' = processExit("sigint")
  /\ UNCHANGED <<runNo, config, seen, queue, activeWorkers, resolved, shuttingDown,
                 inflight, microtasks, timers, db, dispatchLog, resolveCount, history>>

\* crawl() lines 345-365: register the SIGINT handler and enter runWorkerPool,
\* whose promise executor calls startNext() synchronously.
StartPool ==
  /\ pc = "ready"
  /\ pc' = "pool"
  /\ SetPool(startNext([Pool EXCEPT !.activeWorkers = 0, !.resolved = FALSE,
                                    !.resolveCount = 0]))
  /\ UNCHANGED <<exitCode, runNo, config, shuttingDown, history>>

isHtmlResult(res) ==
  /\ res.error = Null
  /\ res.status < 300
  /\ res.content_type = "text/html"
  /\ res.data

\* The response to an in-flight request arrives: processUrl resumes after
\* `await fetchPage`, persists the outcome and settles its promise, whose
\* .then reaction is queued.
fetchReturns(u, o, fault) ==
  LET res == fetchPage(o)
      r == processFetched(db, sessionId, u.url, u.depth, res, fault)
      a == analyze(res, u.url)
  IN /\ inflight' = inflight \ {u}
     /\ db' = r.db
     /\ microtasks' = Append(microtasks, Job("then", u.id, u.url, r.rejected, r.newUrls))
     /\ analysed' = {x \in analysed : x.url # u.url}
                    \cup (IF isHtmlResult(res)
                          THEN {[url |-> u.url, links |-> a.links, images |-> a.images]}
                          ELSE {})
     /\ lastFetch' = [id |-> u.id, url |-> u.url, depth |-> u.depth, raw |-> o,
                       res |-> res, fault |-> fault]
     /\ UNCHANGED <<exitCode, pc, runNo, config, seen, queue, activeWorkers, resolved, shuttingDown,
                    timers, dispatchLog, abandoned, terminalAtResume, resolveCount,
                    atShutdown, workerErrors>>

FetchReturn ==
  /\ pc = "pool"
  /\ microtasks = <<>>
  /\ \E u \in inflight : \E o \in Site(u.url) : fetchReturns(u, o, "none")

\* .then reaction of a unit: a rejection passes through; a fulfilment enqueues
\* the discovered URLs.
ThenCallback ==
  /\ microtasks # <<>>
  /\ Head(microtasks).job = "then"
  /\ LET j == Head(microtasks)
         p == [Pool EXCEPT !.microtasks = Tail(@)]
         p1 == IF j.rejected THEN p ELSE enqueueDiscovered(p, j.newUrls)
     IN SetPool([p1 EXCEPT !.microtasks =
                   Append(@, Job("catch", j.id, j.url, j.rejected, <<>>))])
  /\ UNCHANGED <<exitCode, pc, runNo, config, shuttingDown, history>>

\* the chain without its .catch: a rejection ends the chain unhandled, and the
\* unit's .finally bookkeeping is never done
CatchCallbackAbortsUnit ==
  /\ microtasks # <<>>
  /\ Head(microtasks).job = "catch"
  /\ LET j == Head(microtasks)
     IN /\ microtasks' = IF j.rejected THEN Tail(microtasks)
                         ELSE Append(Tail(microtasks),
                                     Job("finally", j.id, j.url, FALSE, <<>>))
        /\ workerErrors' = IF j.rejected THEN workerErrors \cup {j.id} ELSE workerErrors
  /\ UNCHANGED <<exitCode, pc, runNo, config, seen, queue, activeWorkers, resolved, shuttingDown,
                 inflight, timers, db, dispatchLog, resolveCount, abandoned,
                 terminalAtResume, analysed, atShutdown, lastFetch>>

\* .catch reaction: a rejection is logged ('Worker error:') and absorbed.
CatchCallback ==
  /\ microtasks # <<>>
  /\ Head(microtasks).job = "catch"
  /\ LET j == Head(microtasks)
     IN /\ microtasks' = Append(Tail(microtasks), Job("finally", j.id, j.url, FALSE, <<>>))
        /\ workerErrors' = IF j.rejected THEN workerErrors \cup {j.id} ELSE workerErrors
  /\ UNCHANGED <<exitCode, pc, runNo, config, seen, queue, activeWorkers, resolved, shuttingDown,
                 inflight, timers, db, dispatchLog, resolveCount, abandoned,
                 terminalAtResume, analysed, atShutdown, lastFetch>>

\* .finally reaction: lines 296-306.
FinallyCallback ==
  /\ microtasks # <<>>
  /\ Head(microtasks).job = "finally"
  /\ SetPool(onFinally([Pool EXCEPT !.microtasks = Tail(@)]))
  /\ UNCHANGED <<exitCode, pc, runNo, config, shuttingDown, history>>

\* if (!state.shuttingDown) db.updateSessionStatus(sessionId, 'complete'); db.close()
crawlFinish(d, sid) ==
  close(IF ~shuttingDown THEN updateSessionStatus(d, sid, "complete") ELSE d)

\* crawl() resumes after `await runWorkerPool`: lines 367-374.
CrawlContinue ==
  /\ microtasks # <<>>
  /\ Head(microtasks).job = "crawl"
  /\ microtasks' = Tail(microtasks)
  /\ db' = crawlFinish(db, sessionId)
  /\ pc' = "done"
  /\ exitCode' = processExit("resolved")
  /\ UNCHANGED <<runNo, config, seen, queue, activeWorkers, resolved, shuttingDown,
                 inflight, timers, dispatchLog, resolveCount, history>>

\* A crawl-delay timer fires: setTimeout(startNext, crawlDelay * 1000).
TimerFire ==
  /\ pc \in {"pool", "done"}
  /\ microtasks = <<>>
  /\ timers > 0
  /\ SetPool(startNext([Pool EXCEPT !.timers = @ - 1]))
  /\ UNCHANGED <<exitCode, pc, runNo, config, shuttingDown, history>>

\* The process is gone: its memory with it.
ProcessEnds ==
  /\ seen' = {}
  /\ queue' = <<>>
  /\ activeWorkers' = 0
  /\ inflight' = {}
  /\ microtasks' = <<>>
  /\ timers' = 0
  /\ abandoned' = abandoned \cup {u.id : u \in inflight}
                            \cup ({microtasks[i].id : i \in 1..Len(microtasks)} \ {0})

\* the handler with close and update swapped: the update raises on the closed
\* handle and the try swallows it
sigintStoreCloseFirst(d, sid) == close(d)

\* try { db.updateSessionStatus(sessionId, 'interrupted'); db.close(); } catch {}
sigintStore(d, sid) == close(updateSessionStatus(d, sid, "interrupted"))

\* sigintHandler: lines 349-358.
Sigint ==
  /\ pc = "pool"
  /\ microtasks = <<>>
  /\ ~shuttingDown
  /\ shuttingDown' = TRUE
  /\ db' = sigintStore(db, sessionId)
  /\ pc' = "exited"
  /\ exitCode' = processExit("sigint")
  /\ ProcessEnds
  /\ atShutdown' = {u.id : u \in inflight}
  /\ UNCHANGED <<runNo, config, resolved, dispatchLog, terminalAtResume, resolveCount,
                 analysed, lastFetch, workerErrors>>

\* resumeSeen without the page URLs: seen rebuilt from the link targets alone
resumeSeenLinksOnly(d, sid) == getLinkTargetUrls(d, sid)

\* resumeSession lines 169-171: seen is rebuilt from every page URL and every
\* link target of the session.
resumeSeen(d, sid) == getAllPageUrls(d, sid) \cup getLinkTargetUrls(d, sid)

\* crawl --resume in a new process: resumeSession, lines 157-177.
Resume ==
  /\ pc \in {"start", "exited"}
  /\ runNo < MaxRuns
  /\ getLatestInterruptedSession(db) # 0
  /\ LET sid == getLatestInterruptedSession(db)
     IN /\ sessionId' = sid
        /\ seen' = resumeSeen(db, sid)
        /\ queue' \in getPendingUrls(db, sid)
        /\ db' = updateSessionStatus([db EXCEPT !.closed = FALSE], sid, "running")
        /\ terminalAtResume' =
             {r.url : r \in {q \in db.pages : q.session_id = sid /\ q.status # "pending"}}
  /\ disallowed' \in RobotsMenu
  /\ pc' = "ready"
  /\ runNo' = runNo + 1
  /\ shuttingDown' = FALSE
  /\ resolved' = FALSE
  /\ resolveCount' = 0
  /\ atShutdown' = {}
  /\ exitCode' = NullInt
  /\ UNCHANGED <<concurrency, crawlDelay, activeWorkers, inflight, microtasks, timers,
                 dispatchLog, abandoned, analysed, lastFetch, workerErrors, sitemap>>

Next ==
  \/ InitSession
  \/ SigintDuringInit
  \/ StartPool
  \/ FetchReturn
  \/ ThenCallback
  \/ CatchCallback
  \/ FinallyCallback
  \/ CrawlContinue
  \/ TimerFire
  \/ Sigint
  \/ Resume

Spec == Init /\ [][Next]_vars

\* ------------------------------------------------------------------ fairness
\* The event loop runs a task whenever one is runnable: a queued reaction, a due
\* timer, the response of a request (axios is given a timeout, so every
\* request returns).  Signals and resumes are up to the user.
EventLoopStep ==
  \/ InitSession
  \/ StartPool
  \/ FetchReturn
  \/ ThenCallback
  \/ CatchCallback
  \/ FinallyCallback
  \/ CrawlContinue
  \/ TimerFire

Fairness == WF_vars(EventLoopStep)

FairSpec == Spec /\ Fairness

\* ------------------------------------------------------------------ runWorkerPool with a caller-held flag
\* runWorkerPool is exported and takes `state` as its fourth parameter: its
\* caller may set state.shuttingDown while the pool runs, without ending the
\* process.
SetShuttingDown ==
  /\ pc = "pool"
  /\ microtasks = <<>>
  /\ ~shuttingDown
  /\ shuttingDown' = TRUE
  /\ atShutdown' = {u.id : u \in inflight}
  /\ UNCHANGED <<exitCode, pc, runNo, config, seen, queue, activeWorkers, resolved, inflight,
                 microtasks, timers, db, dispatchLog, abandoned, terminalAtResume,
                 resolveCount, analysed, lastFetch, workerErrors>>

NextPool == Next \/ SetShuttingDown

SpecPool == Init /\ [][NextPool]_vars

\* ------------------------------------------------------------------ store failures and crashes
\* The store raises inside persistPageResult (after the page update: while the
\* links or while the images are inserted), or the process dies there.
FetchFault ==
  /\ pc = "pool"
  /\ microtasks = <<>>
  /\ \E u \in inflight : \E o \in Site(u.url) : \E fault \in {"links", "images"} :
       /\ processFetched(db, sessionId, u.url, u.depth, fetchPage(o), fault).rejected
       /\ isHtmlResult(fetchPage(o))
       /\ fetchReturns(u, o, fault)

\* the entries of newUrls from the first one the seen gate lets through
RECURSIVE fromFirstUnseen(_, _)
fromFirstUnseen(newUrls, s) ==
  IF newUrls = <<>> THEN <<>>
  ELSE IF Head(newUrls).url \notin s THEN newUrls
  ELSE fromFirstUnseen(Tail(newUrls), s)

\* The store raises in the .then handler, at db.upsertPage of the first URL
\* that passes the seen gate: seen.add(u) has run, the page row and the queue
\* entry are not written, the loop is left and the chain's promise rejects.
ThenFault ==
  /\ pc = "pool"
  /\ microtasks # <<>>
  /\ Head(microtasks).job = "then"
  /\ ~Head(microtasks).rejected
  /\ fromFirstUnseen(Head(microtasks).newUrls, seen) # <<>>
  /\ LET j == Head(microtasks)
     IN /\ seen' = seen \cup {Head(fromFirstUnseen(j.newUrls, seen)).url}
        /\ microtasks' = Append(Tail(microtasks), Job("catch", j.id, j.url, TRUE, <<>>))
  /\ UNCHANGED <<exitCode, pc, runNo, config, queue, activeWorkers, resolved, shuttingDown, inflight,
                 timers, db, dispatchLog, resolveCount, history>>

\* The process dies (kill -9, power loss) at any point of the run, also in the
\* middle of a transaction, whose writes are then rolled back on the next open:
\* the store keeps its committed state.
Crash ==
  /\ pc = "pool"
  /\ pc' = "crashed"
  /\ ProcessEnds
  /\ UNCHANGED <<exitCode, runNo, config, resolved, shuttingDown, db, dispatchLog, terminalAtResume,
                 resolveCount, analysed, atShutdown, lastFetch, workerErrors>>

NextFault == Next \/ FetchFault \/ ThenFault \/ Crash

SpecFault == Init /\ [][NextFault]_vars

\* ------------------------------------------------------------------ a paced crawl of a larger sitemap
\* initSession for a site whose robots.txt sets a crawl delay and disallows
\* nothing and whose sitemap lists three pages: with the root, four seeds.
InitSessionPaced ==
  /\ pc = "init"
  /\ \E delay \in 1..MaxCrawlDelay :
       LET f == initSession(db, <<P1, P2, P3>>)
       IN /\ crawlDelay' = delay
          /\ disallowed' = {}
          /\ sessionId' = f.sessionId
          /\ seen' = f.seen
          /\ queue' = f.queue
          /\ db' = f.db
          /\ sitemap' = <<P1, P2, P3>>
  /\ pc' = "ready"
  /\ UNCHANGED <<exitCode, runNo, concurrency, activeWorkers, resolved, shuttingDown,
                 inflight, microtasks, timers, dispatchLog, resolveCount, history>>

\* one run, left uninterrupted
NextPaced ==
  \/ InitSessionPaced
  \/ StartPool
  \/ FetchReturn
  \/ ThenCallback
  \/ CatchCallback
  \/ FinallyCallback
  \/ CrawlContinue
  \/ TimerFire

SpecPaced == Init /\ [][NextPaced]_vars

\* ------------------------------------------------------------------ the crawl command from its start
\* Stores a crawl command may find on disk.  StoreNoInterrupted: one earlier
\* crawl of the site, complete (its root answered 404).  StoreInterrupted: two
\* earlier crawls interrupted with their seeds in flight (the second had P1 in
\* its sitemap), and a later one that completed.
StoreNoInterrupted ==
  LET d1 == initSession(createSession(NewDb), <<>>).db
      d2 == markPageError(d1, 1, SiteRoot, 404, "HTTP 404")
  IN close(updateSessionStatus(d2, 1, "complete"))

StoreInterrupted ==
  LET d1 == initSession(createSession(NewDb), <<>>).db
      d2 == updateSessionStatus(d1, 1, "interrupted")
      d3 == initSession(createSession(d2), <<P1>>).db
      d4 == updateSessionStatus(d3, 2, "interrupted")
      d5 == initSession(createSession(d4), <<>>).db
      d6 == markPageError(d5, 3, SiteRoot, 404, "HTTP 404")
  IN close(updateSessionStatus(d6, 3, "complete"))

StoreMenu == {close(NewDb), StoreNoInterrupted, StoreInterrupted}

\* The command has been started and has not yet read its arguments.
InitStart ==
  \E c \in 1..MaxConcurrency, store \in StoreMenu :
    /\ pc = "start"
    /\ runNo = 0
    /\ concurrency = c
    /\ crawlDelay = 0
    /\ disallowed = {}
    /\ db = store
    /\ sessionId = 0
    /\ seen = {}
    /\ queue = <<>>
    /\ activeWorkers = 0
    /\ resolved = FALSE
    /\ shuttingDown = FALSE
    /\ inflight = {}
    /\ microtasks = <<>>
    /\ timers = 0
    /\ dispatchLog = <<>>
    /\ abandoned = {}
    /\ terminalAtResume = {}
    /\ resolveCount = 0
    /\ analysed = {}
    /\ atShutdown = {}
    /\ lastFetch = NoFetch
    /\ workerErrors = {}
    /\ sitemap = <<>>
    /\ exitCode = NullInt

\* crawl() without --site: `throw new Error('--site is required...')` before
\* the store is opened; main's .catch logs it and calls process.exit(1).
CrawlMissingSite ==
  /\ pc = "start"
  /\ pc' = "failedArgs"
  /\ exitCode' = processExit("fatal")
  /\ UNCHANGED <<runNo, config, seen, queue, activeWorkers, resolved, shuttingDown,
                 inflight, microtasks, timers, db, dispatchLog, resolveCount, history>>

\* crawl --site <url>: new Db(hostname), then initSession up to its first await
\* (db.createSession, line 117).
CrawlFresh ==
  /\ pc = "start"
  /\ db' = createSession([db EXCEPT !.closed = FALSE])
  /\ sessionId' = Len(db.sessions) + 1
  /\ runNo' = runNo + 1
  /\ pc' = "init"
  /\ UNCHANGED <<exitCode, concurrency, crawlDelay, disallowed, sitemap, seen, queue,
                 activeWorkers, resolved, shuttingDown, inflight, microtasks, timers,
                 dispatchLog, resolveCount, history>>

\* crawl() without its catch block: the store opened by new Db stays open
startupFailureLeavesOpen(d) == [d EXCEPT !.closed = FALSE]

\* new Db(hostname); try { ... } catch (err) { db.close(); throw err; }
startupFailure(d) == close([d EXCEPT !.closed = FALSE])

\* crawl --site <url> --resume with no interrupted session: resumeSession
\* throws, crawl()'s catch closes the store and rethrows, main's .catch calls
\* process.exit(1).
ResumeFails ==
  /\ pc = "start"
  /\ getLatestInterruptedSession(db) = 0
  /\ db' = startupFailure(db)
  /\ pc' = "failedResume"
  /\ exitCode' = processExit("fatal")
  /\ UNCHANGED <<runNo, config, seen, queue, activeWorkers, resolved, shuttingDown,
                 inflight, microtasks, timers, dispatchLog, resolveCount, history>>

NextStart == Next \/ CrawlMissingSite \/ CrawlFresh \/ ResumeFails

SpecStart == InitStart /\ [][NextStart]_vars

\* ------------------------------------------------------------------ the configured concurrency
\* Values of the CONCURRENCY environment variable, and what
\* parseInt(process.env.CONCURRENCY || '5', 10) makes of them: a non-empty
\* string is taken as it is, "0" included.
ConcurrencyEnv == {"1", "0", "-1", "abc"}

parseInt(str) ==
  CASE str = "1" -> 1
    [] str = "0" -> 0
    [] str = "-1" -> -1
    [] OTHER -> NaN

\* loadConfig().concurrency
loadConfig(env) == parseInt(env)

\* A fresh crawl() inside initSession, configured from the environment.
InitConfig ==
  \E env \in ConcurrencyEnv :
    /\ pc = "init"
    /\ runNo = 1
    /\ concurrency = loadConfig(env)
    /\ crawlDelay = 0
    /\ disallowed = {}
    /\ db = createSession(NewDb)
    /\ sessionId = 1
    /\ seen = {}
    /\ queue = <<>>
    /\ activeWorkers = 0
    /\ resolved = FALSE
    /\ shuttingDown = FALSE
    /\ inflight = {}
    /\ microtasks = <<>>
    /\ timers = 0
    /\ dispatchLog = <<>>
    /\ abandoned = {}
    /\ terminalAtResume = {}
    /\ resolveCount = 0
    /\ analysed = {}
    /\ atShutdown = {}
    /\ lastFetch = NoFetch
    /\ workerErrors = {}
    /\ sitemap = <<>>
    /\ exitCode = NullInt

\* Nothing is left for the event loop: no request in flight, no promise
\* reaction, no timer (a signal listener does not keep Node alive).  The
\* process ends with crawl() still awaiting runWorkerPool; nothing after the
\* await runs, the store is neither updated nor closed.
EventLoopDrains ==
  /\ pc = "pool"
  /\ inflight = {} /\ microtasks = <<>> /\ timers = 0
  /\ pc' = "drained"
  /\ exitCode' = processExit("drained")
  /\ UNCHANGED <<runNo, config, seen, queue, activeWorkers, resolved, shuttingDown,
                 inflight, microtasks, timers, db, dispatchLog, resolveCount, history>>

NextConfig == Next \/ EventLoopDrains

SpecConfig == InitConfig /\ [][NextConfig]_vars

\* ------------------------------------------------------------------ the store driven by any caller
\* The Db class is exported: its methods may be called in any order and with
\* any arguments, as tests/db.test.js does.  pc holds what the last call was.
MaxDepth == 1

InitStore ==
  /\ pc = "store"
  /\ runNo = 0
  /\ concurrency = 1
  /\ crawlDelay = 0
  /\ disallowed = {}
  /\ db = createSession(createSession(NewDb))
  /\ sessionId = 1
  /\ seen = {}
  /\ queue = <<>>
  /\ activeWorkers = 0
  /\ resolved = FALSE
  /\ shuttingDown = FALSE
  /\ inflight = {}
  /\ microtasks = <<>>
  /\ timers = 0
  /\ dispatchLog = <<>>
  /\ abandoned = {}
  /\ terminalAtResume = {}
  /\ resolveCount = 0
  /\ analysed = {}
  /\ atShutdown = {}
  /\ lastFetch = NoFetch
  /\ workerErrors = {}
  /\ sitemap = <<>>
  /\ exitCode = NullInt

StorePositions == {"store", "upsertInserted", "upsertIgnored", "marked"}

StoreCall(d, position) ==
  /\ pc \in StorePositions
  /\ db' = d
  /\ pc' = position
  /\ UNCHANGED <<exitCode, runNo, config, seen, queue, activeWorkers, resolved,
                 shuttingDown, inflight, microtasks, timers, dispatchLog, resolveCount,
                 history>>

\* db.upsertPage(sessionId, { url, depth, in_sitemap }); the statement reports
\* one change when it inserted and none when the conflict made it do nothing.
StoreUpsert ==
  \E sid \in 1..2, url \in {SiteRoot, P1}, depth \in 0..MaxDepth, in_sitemap \in 0..1 :
    StoreCall(upsertPage(db, sid, url, depth, in_sitemap),
              IF \E r \in db.pages : r.session_id = sid /\ r.url = url
              THEN "upsertIgnored" ELSE "upsertInserted")

StoreMarkCrawled ==
  \E sid \in 1..2, url \in {P1} :
    StoreCall(markPageCrawled(db, sid, url, emptyPage([status_code |-> 200])), "marked")

StoreMarkError ==
  \E sid \in 1..2, url \in {P1} :
    StoreCall(markPageError(db, sid, url, 404, "HTTP 404"), "marked")

StoreMarkSkipped ==
  \E sid \in 1..2, url \in {P1} :
    StoreCall(markPageSkipped(db, sid, url, "Disallowed by robots.txt"), "marked")

NextStore == StoreUpsert \/ StoreMarkCrawled \/ StoreMarkError \/ StoreMarkSkipped

SpecStore == InitStore /\ [][NextStore]_vars

\* ------------------------------------------------------------------ properties
PageOf(url) == CHOOSE r \in db.pages : r.session_id = sessionId /\ r.url = url
HasPage(url) == \E r \in db.pages : r.session_id = sessionId /\ r.url = url
Dispatches(url) == {i \in 1..Len(dispatchLog) : dispatchLog[i].url = url}
LinkRows(source) == {l \in db.links : l.row.source_url = source}
ImageRows(page) == {m \in db.images : m.row.page_url = page}
\* the reactions of units of work still queued (then, catch, finally)
UnitJobs == {i \in 1..Len(microtasks) : microtasks[i].job # "crawl"}

\* C1: within one run no URL is dispatched to processUrl twice, whatever the
\* interleaving of completions and however many source pages link to it, and
\* a URL has exactly one Page row in its session.
C1_NoDuplicateDispatchInRun ==
  /\ \A i, j \in 1..Len(dispatchLog) :
       (i < j /\ dispatchLog[i].run = dispatchLog[j].run)
         => dispatchLog[i].url # dispatchLog[j].url
  /\ \A r1, r2 \in db.pages :
       (r1.session_id = r2.session_id /\ r1.url = r2.url) => r1 = r2

\* C1 witness: P1 and the root were in flight together, both link to P2, and P2
\* was crawled after a single dispatch.
C1_Witness ==
  /\ pc = "done"
  /\ concurrency = 2
  /\ Len(dispatchLog) >= 3
  /\ dispatchLog[1].url = P1
  /\ dispatchLog[2].url = SiteRoot
  /\ \E l \in LinkRows(P1) : l.row.target_url = P2
  /\ \E l \in LinkRows(SiteRoot) : l.row.target_url = P2
  /\ Cardinality(Dispatches(P2)) = 1
  /\ PageOf(P2).status = "crawled"

\* C2 as stated: activeWorkers is within 0..concurrency and equals the number of
\* processUrl calls started and not yet settled.
C2_ActiveEqualsUnsettled ==
  /\ activeWorkers \in 0..concurrency
  /\ activeWorkers = Cardinality(inflight)

\* C2 amended: activeWorkers is within 0..concurrency and equals the number of
\* dispatched units whose .finally reaction has not run yet: the unsettled
\* processUrl calls plus the settled ones whose reactions are still queued.  It
\* equals the number of unsettled calls whenever no reaction is queued.
C2_ActiveCountsUnfinishedUnits ==
  /\ activeWorkers \in 0..concurrency
  /\ activeWorkers = Cardinality(inflight) + Cardinality(UnitJobs)
  /\ (microtasks = <<>>) => (activeWorkers = Cardinality(inflight))

\* C2 witness: the pool is full with one unit awaiting its fetch and one settled
\* unit whose reactions are still queued.
C2_Witness ==
  /\ pc = "pool"
  /\ activeWorkers = concurrency
  /\ activeWorkers = 2
  /\ Cardinality(inflight) = 1
  /\ Cardinality(UnitJobs) = 1

SessionStatus == db.sessions[sessionId].status
PendingPages == {r \in db.pages : r.session_id = sessionId /\ r.status = "pending"}

\* C3 (resume completeness): once a resumed run has drained and the session is
\* marked complete, every page of the session has a terminal status; none is
\* still pending.
C3_ResumeLeavesNoPending ==
  (runNo > 1 /\ pc = "done" /\ SessionStatus = "complete") => PendingPages = {}

\* C4: in a resumed run no URL is dispatched whose page already had a terminal
\* status when the session was resumed, also when a page of the resumed run
\* links or redirects to it.
C4_NoTerminalPageRedispatched ==
  \A i \in 1..Len(dispatchLog) :
    (runNo > 1 /\ dispatchLog[i].run = runNo) => dispatchLog[i].url \notin terminalAtResume

\* C4 witness: a resumed run has drained in which a page was crawled as a
\* redirect to a URL that was already terminal at the resume.
C4_Witness ==
  /\ runNo > 1
  /\ pc = "done"
  /\ \E r \in db.pages :
       /\ r.url \notin terminalAtResume
       /\ r.status = "crawled"
       /\ r.redirect_url \in terminalAtResume
       /\ Cardinality(Dispatches(r.redirect_url)) = 1

\* C5 as stated: over all runs of the session together, every URL is dispatched
\* at most once.
C5_AtMostOncePerSession ==
  \A i, j \in 1..Len(dispatchLog) : i < j => dispatchLog[i].url # dispatchLog[j].url

\* C5 amended: a URL is dispatched at most once per run, and it is dispatched
\* again only by a later run and only while its page is still pending, as is the
\* page of a unit that was in flight when the session was interrupted; a URL
\* whose page has a terminal status is never dispatched again.
C5_RedispatchOnlyWhilePending ==
  /\ \A j \in 1..Len(dispatchLog) : dispatchLog[j].page_status = "pending"
  /\ \A i, j \in 1..Len(dispatchLog) :
       (i < j /\ dispatchLog[i].url = dispatchLog[j].url)
         => dispatchLog[i].run < dispatchLog[j].run

\* C5 witness: a URL in flight at the interruption was dispatched again by the
\* resumed run, which drained.
C5_Witness ==
  /\ pc = "done"
  /\ runNo = 2
  /\ \E i \in abandoned : \E j \in 1..Len(dispatchLog) :
       /\ i < j
       /\ dispatchLog[i].url = dispatchLog[j].url
       /\ PageOf(dispatchLog[i].url).status = "crawled"

RowsOf(table) == {x.row : x \in table}

\* C6 (atomicity of an HTML page result): in every committed store state, also
\* after the store raised or the process died between the page update, the
\* link inserts and the image inserts, a page analysed as HTML is crawled with
\* exactly the link and image rows of its analysis, and a page that is not
\* crawled has no link or image row at all.
C6_PageResultAtomic ==
  \A r \in db.pages :
    IF r.status = "crawled"
    THEN \A a \in analysed :
           a.url = r.url =>
             /\ RowsOf(LinkRows(r.url)) = SeqToSet(a.links)
             /\ Cardinality(LinkRows(r.url)) = Len(a.links)
             /\ RowsOf(ImageRows(r.url)) = SeqToSet(a.images)
             /\ Cardinality(ImageRows(r.url)) = Len(a.images)
    ELSE LinkRows(r.url) = {} /\ ImageRows(r.url) = {}

\* C6 witness: the store raised while the images of an analysed page with links
\* and images were inserted; the unit has ended and the page is still pending.
C6_Witness ==
  /\ pc = "pool"
  /\ microtasks = <<>>
  /\ \E a \in analysed :
       /\ Len(a.links) > 0
       /\ Len(a.images) > 0
       /\ a.url \notin {u.url : u \in inflight}
       /\ PageOf(a.url).status = "pending"

\* the queue of the next state extends the queue of this one: nothing was taken
IsPrefix(s, t) == Len(s) <= Len(t) /\ SubSeq(t, 1, Len(s)) = s

\* C7: once shuttingDown is set, no further URL is taken from the queue and
\* dispatched, neither by a completing worker nor by a crawl-delay timer, while
\* the units in flight stay in flight until their fetch returns.
C7_NoDispatchAfterShutdown ==
  [][shuttingDown =>
       /\ dispatchLog' = dispatchLog
       /\ (pc' \in {"pool", "done"} =>
             /\ IsPrefix(queue, queue')
             /\ \A u \in inflight :
                  \/ u \in inflight'
                  \/ \E i \in 1..Len(microtasks') : microtasks'[i].id = u.id)]_vars

\* C7 witness: the flag was set with a unit in flight and URLs queued; the unit
\* has since finished and persisted its result, the queue is untouched.
C7_Witness ==
  /\ pc = "pool"
  /\ shuttingDown
  /\ atShutdown # {}
  /\ queue # <<>>
  /\ inflight = {}
  /\ microtasks = <<>>
  /\ \A i \in atShutdown : PageOf(dispatchLog[i].url).status = "crawled"

Quiescent == inflight = {} /\ microtasks = <<>> /\ timers = 0

\* C8: after a shutdown request, once the units in flight have finished and
\* nothing is left to run, the pool's completion signal has fired.
C8_ShutdownPoolCompletes ==
  (shuttingDown /\ pc \in {"pool", "done"} /\ Quiescent) => resolveCount = 1

\* C9: the completion signal fires only in a state with no active worker, an
\* empty queue and no unit's reaction still to run, and at most once per run.
C9_ResolveOnlyWhenDrained ==
  [][resolveCount' > resolveCount =>
       /\ resolveCount' = 1
       /\ activeWorkers' = 0
       /\ queue' = <<>>
       /\ inflight' = {}
       /\ \A i \in 1..Len(microtasks') : microtasks'[i].job = "crawl"]_vars

\* C9 witness: the signal has fired in a run that discovered URLs while running.
C9_Witness ==
  /\ pc = "pool"
  /\ resolveCount = 1
  /\ resolved
  /\ Len(dispatchLog) >= 3
  /\ \E i \in 1..Len(dispatchLog) : dispatchLog[i].depth > 0

\* C10 (termination): with every fetch returning, a running pool leads to the
\* session marked complete unless an interruption ends the process; and in a
\* drained fresh run every URL that has a page was dispatched exactly once,
\* redirect cycles included.
C10_Terminates ==
  /\ (pc = "pool") ~> (pc = "exited" \/ (pc = "done" /\ SessionStatus = "complete"))
  /\ [](pc = "done" /\ runNo = 1 =>
          \A r \in db.pages : Cardinality(Dispatches(r.url)) = 1)

\* C10 witness: the root redirected to P1 and P1 back to the root; the run
\* drained with each dispatched once.
C10_Witness ==
  /\ pc = "done"
  /\ runNo = 1
  /\ SessionStatus = "complete"
  /\ HasPage(P1)
  /\ PageOf(SiteRoot).redirect_url = P1
  /\ PageOf(P1).redirect_url = SiteRoot
  /\ Cardinality(Dispatches(SiteRoot)) = 1
  /\ Cardinality(Dispatches(P1)) = 1

\* the unit whose .then reaction is about to run is the one whose fetch returned last
ThenOfLastFetch ==
  /\ microtasks # <<>>
  /\ Head(microtasks).job = "then"
  /\ Head(microtasks).id = lastFetch.id

\* C11: every URL the pool adds to seen or to the queue has the host of the
\* page whose processing discovered it, and no URL of another host than the
\* site's is ever dispatched.
C11_OnlyInScopeEnqueued ==
  /\ [][pc = "pool" =>
         \A u \in seen' \ seen :
           microtasks # <<>> /\ u.host = Head(microtasks).url.host]_vars
  /\ [](\A i \in 1..Len(dispatchLog) : dispatchLog[i].url.host = SiteHost)

\* C12 (robots gating): a URL the policy disallows, once dispatched, is never
\* awaiting a fetch; its page is skipped with the reason recorded, and its
\* promise is fulfilled with no discovered URL.
C12_DisallowedSkippedNeverFetched ==
  \A i \in 1..Len(dispatchLog) :
    (dispatchLog[i].run = runNo /\ dispatchLog[i].url \in disallowed) =>
      /\ \A u \in inflight : u.id # i
      /\ lastFetch.id # i
      /\ PageOf(dispatchLog[i].url).status = "skipped"
      /\ PageOf(dispatchLog[i].url).error_message = "disallowed by robots.txt"
      /\ PageOf(dispatchLog[i].url).status_code = NullInt
      /\ \A k \in 1..Len(microtasks) :
           microtasks[k].id = i => (microtasks[k].newUrls = <<>> /\ ~microtasks[k].rejected)

\* C12 witness: the run drained after the disallowed P2 was dispatched, and P2,
\* which the root links to, is skipped.
C12_Witness ==
  /\ pc = "done"
  /\ P2 \in disallowed
  /\ \E i \in Dispatches(P2) : dispatchLog[i].run = runNo
  /\ \E l \in LinkRows(SiteRoot) : l.row.target_url = P2
  /\ PageOf(P2).status = "skipped"

\* the outcome of the last fetch is a redirect: no error and a 3xx status
LastFetchIsRedirect ==
  /\ lastFetch.res.error = Null
  /\ lastFetch.res.status >= 300
  /\ lastFetch.res.status < 400

\* the Location of the last fetch resolved against the fetched URL
LastRedirectTarget == NewURL(lastFetch.res.redirectUrl, lastFetch.url)

\* C13 (redirect chaining): when processUrl settles after a 3xx with a
\* Location, the page is crawled with that status code, redirect_url the
\* Location resolved against the source URL, is_indexable 0 and no SEO field
\* set, and the target is the one discovered URL, at the source's depth; the
\* .then reaction enqueues it at that depth unless it is already seen.  A 3xx
\* with no Location is crawled with redirect_url null and discovers nothing.
C13_RedirectChaining ==
  /\ []((ThenOfLastFetch /\ LastFetchIsRedirect) =>
          LET j == Head(microtasks)
              page == PageOf(lastFetch.url)
          IN /\ ~j.rejected
             /\ page.status = "crawled"
             /\ page.status_code = lastFetch.res.status
             /\ page.is_indexable = 0
             /\ page.content_type = Null
             /\ page.internal_link_count = 0
             /\ page.external_link_count = 0
             /\ page.image_count = 0
             /\ LinkRows(lastFetch.url) = {}
             /\ IF lastFetch.res.redirectUrl # NoRef
                THEN /\ LastRedirectTarget # Throws
                     /\ page.redirect_url = LastRedirectTarget
                     /\ j.newUrls = <<[url |-> LastRedirectTarget,
                                       depth |-> lastFetch.depth]>>
                ELSE /\ page.redirect_url = NoUrl
                     /\ j.newUrls = <<>>)
  /\ [][(ThenOfLastFetch /\ LastFetchIsRedirect) =>
          IF lastFetch.res.redirectUrl # NoRef /\ LastRedirectTarget \notin seen
          THEN /\ seen' = seen \cup {LastRedirectTarget}
               /\ queue' = Append(queue, [url |-> LastRedirectTarget,
                                           depth |-> lastFetch.depth])
               /\ \E r \in db'.pages :
                    /\ r.session_id = sessionId
                    /\ r.url = LastRedirectTarget
                    /\ r.status = "pending"
                    /\ r.depth = lastFetch.depth
          ELSE seen' = seen /\ queue' = queue /\ db'.pages = db.pages]_vars

\* the hrefs of the last fetched document that parse, by position
ParsedHrefs ==
  {k \in 1..Len(lastFetch.res.hrefs) : NewURL(lastFetch.res.hrefs[k], lastFetch.url) # Throws}

\* those of them that stay on the host of the fetched page
InternalHrefs ==
  {k \in ParsedHrefs : NewURL(lastFetch.res.hrefs[k], lastFetch.url).host = lastFetch.url.host}

\* C14 (HTML success): when processUrl settles after a 2xx HTML response with
\* a body, the page is crawled and one Link row per parsed href and one Image
\* row per image are stored, external links included; the discovered URLs are
\* exactly the targets of the same-host links, one entry per such link, each
\* at depth d + 1, and no target on another host is among them.
C14_HtmlSuccess ==
  (ThenOfLastFetch /\ isHtmlResult(lastFetch.res)) =>
    LET j == Head(microtasks)
        url == lastFetch.url
        page == PageOf(url)
        target(k) == NewURL(lastFetch.res.hrefs[k], url)
    IN /\ ~j.rejected
       /\ page.status = "crawled"
       /\ page.status_code = lastFetch.res.status
       /\ page.content_type = "text/html"
       /\ page.redirect_url = NoUrl
       /\ page.internal_link_count = Cardinality(InternalHrefs)
       /\ page.external_link_count = Cardinality(ParsedHrefs \ InternalHrefs)
       /\ page.image_count = lastFetch.res.imgs
       /\ Cardinality(LinkRows(url)) = Cardinality(ParsedHrefs)
       /\ \A k \in ParsedHrefs :
            \E l \in LinkRows(url) :
              /\ l.row.target_url = target(k)
              /\ l.row.is_external = (k \notin InternalHrefs)
       /\ Cardinality(ImageRows(url)) = lastFetch.res.imgs
       /\ Len(j.newUrls) = Cardinality(InternalHrefs)
       /\ {j.newUrls[n].url : n \in 1..Len(j.newUrls)} = {target(k) : k \in InternalHrefs}
       /\ \A n \in 1..Len(j.newUrls) :
            /\ j.newUrls[n].depth = lastFetch.depth + 1
            /\ j.newUrls[n].url.host = url.host

\* C14 witness: the root's document with an internal link, an external link,
\* an unparsable href and an image has just been persisted.
C14_Witness ==
  /\ ThenOfLastFetch
  /\ isHtmlResult(lastFetch.res)
  /\ lastFetch.url = SiteRoot
  /\ \E l \in LinkRows(SiteRoot) : l.row.target_url = Ext /\ l.row.is_external
  /\ Cardinality(ImageRows(SiteRoot)) = 1
  /\ Head(microtasks).newUrls = <<[url |-> P1, depth |-> 1]>>

\* the last fetch succeeded (no error, status below 300) without HTML to
\* analyse: the content-type is not text/html or the body is empty
LastFetchIsNonHtml ==
  /\ lastFetch.res.error = Null
  /\ lastFetch.res.status < 300
  /\ (lastFetch.res.content_type # "text/html" \/ ~lastFetch.res.data)

\* what C15 states of every field but the size
NonHtmlPersisted ==
  LET j == Head(microtasks)
      page == PageOf(lastFetch.url)
  IN /\ ~j.rejected
     /\ j.newUrls = <<>>
     /\ page.status = "crawled"
     /\ page.status_code = lastFetch.res.status
     /\ page.content_type = lastFetch.res.content_type
     /\ page.redirect_url = NoUrl
     /\ page.is_indexable = NullInt
     /\ page.internal_link_count = 0
     /\ page.external_link_count = 0
     /\ page.image_count = 0
     /\ LinkRows(lastFetch.url) = {}
     /\ ImageRows(lastFetch.url) = {}

\* C15 as stated (non-HTML handling): a successful response without an HTML
\* content-type, or with an empty body, is persisted as crawled with its
\* content-type and its size recorded, is_indexable null and the SEO counters
\* zero; no link or image row is written and no URL is discovered.
C15_NonHtmlSizeRecorded ==
  (ThenOfLastFetch /\ LastFetchIsNonHtml) =>
    /\ NonHtmlPersisted
    /\ PageOf(lastFetch.url).page_size_bytes # NullInt

\* C15 amended: as above, but the size is recorded only for a non-empty
\* body; for an empty body page_size_bytes stays null.
C15_NonHtmlSizeOfNonEmptyBody ==
  (ThenOfLastFetch /\ LastFetchIsNonHtml) =>
    /\ NonHtmlPersisted
    /\ PageOf(lastFetch.url).page_size_bytes =
         (IF lastFetch.res.data THEN BodyBytes ELSE NullInt)

\* C15 witness: P2, found through a link at depth 1, answered with a PDF and
\* has just been persisted.
C15_Witness ==
  /\ ThenOfLastFetch
  /\ LastFetchIsNonHtml
  /\ lastFetch.url = P2
  /\ lastFetch.depth = 1
  /\ lastFetch.res.content_type = "application/pdf"
  /\ PageOf(P2).status = "crawled"
  /\ PageOf(P2).page_size_bytes = BodyBytes

\* an outcome processUrl records as an error: the fetch failed, or the status
\* is 400 or above
IsErrorResult(res) == res.error # Null \/ res.status >= 400

FailedUnits == {i \in workerErrors : dispatchLog[i].run = runNo}

\* every page of the session was dispatched in this run or was already
\* terminal when the run resumed
AllDispatched ==
  \A r \in db.pages :
    r.session_id = sessionId =>
      \/ r.url \in terminalAtResume
      \/ \E i \in Dispatches(r.url) : dispatchLog[i].run = runNo

\* C17: a unit of work that fails (processUrl rejects, or its .then handler
\* throws) does not abort the pool: once the failure is logged the unit is
\* counted out of activeWorkers like any other, the pool always has a callback
\* left to run until it resolves, and when crawl() returns the queue is empty,
\* every URL was dispatched and the completion signal has fired once.
C17_FailureDoesNotAbortPool ==
  FailedUnits # {} =>
    /\ activeWorkers = Cardinality(inflight) + Cardinality(UnitJobs)
    /\ \A i \in FailedUnits :
         \A k \in 1..Len(microtasks) :
           microtasks[k].id = i => microtasks[k].job = "finally"
    /\ pc = "pool" => ~Quiescent
    /\ pc = "done" =>
         /\ queue = <<>>
         /\ activeWorkers = 0
         /\ resolveCount = 1
         /\ AllDispatched

\* C17 witness: a unit failed, a URL was dispatched after it in the same run,
\* and the run drained and was marked complete.
C17_Witness ==
  /\ pc = "done"
  /\ SessionStatus = "complete"
  /\ \E i \in FailedUnits :
       \E k \in 1..Len(dispatchLog) : k > i /\ dispatchLog[k].run = runNo

\* C18: a store error raised while a unit persists its result is not absorbed
\* inside the pool: it is not merely logged by the unit's .catch, and crawl()
\* does not go on to return normally in the run in which it was raised.
C18_StoreErrorReachesTopLevel ==
  (lastFetch.fault # "none" /\ dispatchLog[lastFetch.id].run = runNo) =>
    /\ lastFetch.id \notin workerErrors
    /\ pc # "done"

CrawledCount(d) ==
  Cardinality({r \in d.pages : r.session_id = sessionId /\ r.status = "crawled"})

\* C19: the interruption handler sets shuttingDown, marks the session
\* interrupted with completed_at and the number of crawled pages, closes the
\* store and ends the process, in that order (the status is written through the
\* still open handle); it does not wait for the units in flight, whose pages
\* stay pending; and once shuttingDown is set no later signal touches the
\* session again in that process.
C19_InterruptHandler ==
  /\ [][(pc = "pool" /\ pc' = "exited") =>
          /\ ~shuttingDown /\ shuttingDown'
          /\ db'.sessions[sessionId].status = "interrupted"
          /\ db'.sessions[sessionId].completed_at
          /\ db'.sessions[sessionId].total_pages = CrawledCount(db)
          /\ ~db.closed /\ db'.closed
          /\ db'.pages = db.pages
          /\ \A u \in inflight :
               /\ u.id \in abandoned'
               /\ \E r \in db'.pages :
                    r.session_id = sessionId /\ r.url = u.url /\ r.status = "pending"
          /\ inflight' = {}]_vars
  /\ [][(shuttingDown /\ shuttingDown') => db'.sessions = db.sessions]_vars

\* C19 witness: the signal came while a unit was in flight and after a page had
\* been crawled; the process has exited, the session is interrupted with the
\* count, the store is closed, and the unit's page is still pending.
C19_Witness ==
  /\ pc = "exited"
  /\ shuttingDown
  /\ db.closed
  /\ SessionStatus = "interrupted"
  /\ db.sessions[sessionId].total_pages >= 1
  /\ atShutdown # {}
  /\ \A i \in atShutdown : PageOf(dispatchLog[i].url).status = "pending"

\* C20 (session lifecycle): in every run the session is running from its
\* initialisation until the run ends; a run that ended after the pool drained
\* left it complete, a run ended by an interruption left it interrupted; the
\* status changes only at the end of a run, from running to one of the two,
\* and when a resume takes it back to running.
C20_StatusChangesOncePerRun ==
  /\ [](pc \in {"init", "ready", "pool"} => SessionStatus = "running")
  /\ [](pc = "done" => SessionStatus = "complete")
  /\ [](pc \in {"exited", "killed"} => SessionStatus = "interrupted")
  /\ [][db'.sessions[sessionId'].status # db.sessions[sessionId].status =>
          \/ /\ pc = "pool" /\ pc' = "done"
             /\ ~shuttingDown
             /\ SessionStatus = "running"
             /\ db'.sessions[sessionId'].status = "complete"
          \/ /\ pc = "pool" /\ pc' = "exited"
             /\ SessionStatus = "running"
             /\ db'.sessions[sessionId'].status = "interrupted"
          \/ /\ pc = "exited" /\ pc' = "ready"
             /\ runNo' = runNo + 1
             /\ db'.sessions[sessionId'].status = "running"]_vars

\* position of the first occurrence of url in the sitemap list
FirstIndex(url) == CHOOSE i \in 1..Len(sitemap) :
                     sitemap[i] = url /\ \A k \in 1..(i - 1) : sitemap[k] # url

\* C21 (fresh initialisation): when initSession has returned, the queue holds
\* every distinct sitemap URL once, in the order of first occurrence, followed
\* by the site root unless the root was among the sitemap URLs, every entry at
\* depth 0; seen is the set of queued URLs; the session's pages are exactly
\* the queued URLs, each pending at depth 0, flagged in_sitemap for a sitemap
\* URL and not flagged for a root that is not in the sitemap.
C21_FreshInitialisation ==
  (pc = "ready" /\ runNo = 1) =>
    LET inSitemap == SeqToSet(sitemap)
        n == Cardinality(inSitemap)
    IN /\ Len(queue) = IF SiteRoot \in inSitemap THEN n ELSE n + 1
       /\ \A u \in inSitemap :
            Cardinality({i \in 1..Len(queue) : queue[i].url = u}) = 1
       /\ \A i, j \in 1..n :
            i < j => FirstIndex(queue[i].url) < FirstIndex(queue[j].url)
       /\ SiteRoot \notin inSitemap => queue[n + 1].url = SiteRoot
       /\ \A i \in 1..Len(queue) : queue[i].depth = 0
       /\ seen = {queue[i].url : i \in 1..Len(queue)}
       /\ {r.url : r \in {q \in db.pages : q.session_id = sessionId}} = seen
       /\ \A u \in seen :
            /\ PageOf(u).status = "pending"
            /\ PageOf(u).depth = 0
            /\ PageOf(u).in_sitemap = (IF u \in inSitemap THEN 1 ELSE 0)
       /\ SessionStatus = "running"

\* C21 witness: the sitemap listed the root and P2; the queue is the root then
\* P2, the root is not queued a second time and is flagged in_sitemap.
C21_Witness ==
  /\ pc = "ready"
  /\ runNo = 1
  /\ sitemap = <<SiteRoot, P2>>
  /\ queue = <<[url |-> SiteRoot, depth |-> 0], [url |-> P2, depth |-> 0]>>
  /\ PageOf(P2).in_sitemap = 1
  /\ PageOf(SiteRoot).in_sitemap = 1

\* the sessions of the store with status interrupted
InterruptedIds == {i \in 1..Len(db.sessions) : db.sessions[i].status = "interrupted"}

\* C22 (resume initialisation): a step of resumeSession takes the interrupted
\* session with the highest id; seen becomes every page URL of that session
\* (any status) together with every link target of that session; the queue
\* holds exactly its pending pages, each once, with their stored depths in
\* non-decreasing order; the session's status becomes running, no other
\* session changes, and the page, link and image rows stay as they were.
C22_ResumeInitialisation ==
  [][(pc \in {"start", "exited"} /\ pc' = "ready") =>
       LET sid == sessionId'
           pending == {r \in db.pages : r.session_id = sid /\ r.status = "pending"}
       IN /\ sid \in InterruptedIds
          /\ \A j \in InterruptedIds : j <= sid
          /\ seen' = {r.url : r \in {q \in db.pages : q.session_id = sid}}
                       \cup {l.row.target_url : l \in {k \in db.links : k.session_id = sid}}
          /\ Len(queue') = Cardinality(pending)
          /\ {queue'[i] : i \in 1..Len(queue')}
               = {[url |-> r.url, depth |-> r.depth] : r \in pending}
          /\ \A i, j \in 1..Len(queue') : i < j => queue'[i].depth <= queue'[j].depth
          /\ db'.sessions[sid].status = "running"
          /\ \A j \in 1..Len(db.sessions) : j # sid => db'.sessions[j] = db.sessions[j]
          /\ Len(db'.sessions) = Len(db.sessions)
          /\ db'.pages = db.pages
          /\ db'.links = db.links
          /\ db'.images = db.images]_vars

\* C22 witness: of two interrupted sessions and a later complete one, the
\* second has been resumed with its two pending seeds queued.
C22_Witness ==
  /\ pc = "ready"
  /\ runNo = 1
  /\ Len(db.sessions) = 3
  /\ db.sessions[1].status = "interrupted"
  /\ sessionId = 2
  /\ db.sessions[2].status = "running"
  /\ db.sessions[3].status = "complete"
  /\ seen = {P1, SiteRoot}
  /\ queue \in {<<[url |-> P1, depth |-> 0], [url |-> SiteRoot, depth |-> 0]>>,
                <<[url |-> SiteRoot, depth |-> 0], [url |-> P1, depth |-> 0]>>}

\* C23 (fatal startup error): crawl() without --site never opens the store,
\* and crawl() --resume with no interrupted session closes the store it
\* opened; either way crawl() fails straight from its start, no unit of work
\* has been dispatched or is in flight, no session row is added and none
\* changes, no page row changes, and the caller (main) ends the process with
\* exit code 1.
C23_FatalStartupError ==
  /\ [](pc \in {"failedArgs", "failedResume"} =>
          /\ db.closed
          /\ dispatchLog = <<>>
          /\ inflight = {} /\ microtasks = <<>> /\ activeWorkers = 0
          /\ exitCode = 1)
  /\ [][pc' \in {"failedArgs", "failedResume"} =>
          /\ pc = "start"
          /\ pc' = "failedResume" => InterruptedIds = {}
          /\ db'.sessions = db.sessions
          /\ db'.pages = db.pages]_vars

\* C23 witness: --resume failed on a store whose only session is complete; the
\* session is still complete and the handle is closed.
C23_Witness ==
  /\ pc = "failedResume"
  /\ Len(db.sessions) = 1
  /\ db.sessions[1].status = "complete"
  /\ db.closed
  /\ exitCode = 1

\* C24 (per-worker crawl delay): with a crawl delay, the units in flight and
\* the completed units whose delay timer has not fired yet (a timer fires no
\* earlier than the delay after its unit completed) are together never more
\* than concurrency: no worker slot is reused before its own delay is over.
C24_DelayPerWorker ==
  crawlDelay > 0 => activeWorkers + timers <= concurrency

\* C25 (pacing with one worker): with concurrency 1 and a crawl delay, at most
\* one unit is in flight or waiting out its delay, and every dispatch of a run
\* other than its first is made by the delay timer that the completion of the
\* previously dispatched unit set: N pages take at least N - 1 delays.
C25_PacedSingleWorker ==
  /\ [](concurrency = 1 /\ crawlDelay > 0 => activeWorkers + timers <= 1)
  /\ [][(concurrency = 1 /\ crawlDelay > 0 /\ pc = "pool"
           /\ Len(dispatchLog') > Len(dispatchLog)) =>
          /\ Len(dispatchLog') = Len(dispatchLog) + 1
          /\ dispatchLog[Len(dispatchLog)].run = runNo
          /\ timers = 1 /\ timers' = 0
          /\ activeWorkers = 0 /\ activeWorkers' = 1
          /\ microtasks = <<>>]_vars

\* C25 witness: one worker, a crawl delay; the third dispatch of the run has
\* just been made by a timer.
C25_Witness ==
  /\ concurrency = 1
  /\ crawlDelay > 0
  /\ pc = "pool"
  /\ runNo = 1
  /\ Len(dispatchLog) = 3
  /\ activeWorkers = 1
  /\ timers = 0
  /\ Cardinality(inflight) = 1

\* C26 (upsertPage is idempotent per session and URL, first insertion wins):
\* a call of upsertPage keeps every page row exactly as it was - status (a
\* terminal one too), depth and sitemap flag - adds at most one row, a pending
\* one for a (session, URL) that had none, and never leaves two rows for one
\* (session, URL); a call that met an existing row changes nothing.
C26_UpsertFirstInsertionWins ==
  /\ [](\A r1, r2 \in db.pages :
          (r1.session_id = r2.session_id /\ r1.url = r2.url) => r1 = r2)
  /\ [][pc' \in {"upsertInserted", "upsertIgnored"} =>
          /\ db.pages \subseteq db'.pages
          /\ Cardinality(db'.pages \ db.pages) <= 1
          /\ \A n \in db'.pages \ db.pages :
               /\ n.status = "pending"
               /\ ~\E r \in db.pages : r.session_id = n.session_id /\ r.url = n.url
          /\ pc' = "upsertIgnored" => db' = db
          /\ pc' = "upsertInserted" => db'.pages # db.pages]_vars

\* C26 witness: upsertPage has just met existing rows it left alone: a crawled
\* page at depth 1 flagged in_sitemap, beside an error page of the same URL in
\* the other session.
C26_Witness ==
  /\ pc = "upsertIgnored"
  /\ \E r \in db.pages :
       r.session_id = 1 /\ r.url = P1 /\ r.status = "crawled"
         /\ r.depth = 1 /\ r.in_sitemap = 1
  /\ \E r \in db.pages : r.session_id = 2 /\ r.url = P1 /\ r.status = "error"

\* C27 as claimed (exit codes): the process ends with 0 on normal completion
\* and on a graceful interruption (the handler saved the session and closed
\* the store), with 1 on a fatal startup error, and with 130 when the
\* interruption signal met no handler.
C27_ExitCodesAsClaimed ==
  /\ pc = "done" => exitCode = 0
  /\ pc = "exited" => exitCode = 0
  /\ pc \in {"failedArgs", "failedResume"} => exitCode = 1
  /\ pc = "killed" => exitCode = 130

\* C27 (exit codes, amended): the process ends with 0 when crawl() completes
\* without an interruption, with 1 on a fatal startup error, and with 130
\* whenever an interruption signal was received, the graceful interruption by
\* the handler included; while it runs it has no exit code.
C27_ExitCodes ==
  /\ pc = "done" => exitCode = 0
  /\ pc \in {"exited", "killed"} => exitCode = 130
  /\ pc \in {"failedArgs", "failedResume"} => exitCode = 1
  /\ pc \in {"start", "init", "ready", "pool"} => exitCode = NullInt

\* C27 witness: the handler interrupted a run with a unit in flight: session
\* interrupted, store closed, exit code 130.
C27_Witness ==
  /\ pc = "exited"
  /\ exitCode = 130
  /\ db.closed
  /\ SessionStatus = "interrupted"
  /\ atShutdown # {}

\* the units of the current run that have ended: dispatched, no longer in
\* flight, and with no reaction (then, catch, finally) left to run
EndedUnits ==
  {i \in 1..Len(dispatchLog) :
     /\ dispatchLog[i].run = runNo
     /\ i \notin {u.id : u \in inflight}
     /\ i \notin {microtasks[k].id : k \in 1..Len(microtasks)}}

\* C28 (per-URL errors are contained and persisted): while the run is alive,
\* every unit of work that has ended left its page with a terminal status, and
\* when crawl() has marked the session complete no page of it is pending.
C28_EveryUnitEndsTerminal ==
  /\ pc \in {"pool", "done"} =>
       \A i \in EndedUnits : PageOf(dispatchLog[i].url).status # "pending"
  /\ (pc = "done" /\ SessionStatus = "complete") => PendingPages = {}

\* the pool has a free worker slot, queued work and no shutdown request
CanDispatchNow ==
  pc = "pool" /\ activeWorkers < concurrency /\ Len(queue) > 0 /\ ~shuttingDown

\* C29 (dispatch progress): a pool with a free slot, queued work and no
\* shutdown request is never left idle: a completion handler is still to run,
\* or (only under a crawl delay) a delay timer is pending; that condition ends
\* only by a dispatch or by the interruption of the process; and with every
\* handler and timer eventually running, it does end.
C29_DispatchProgress ==
  /\ [](CanDispatchNow /\ microtasks = <<>> => crawlDelay > 0 /\ timers > 0)
  /\ [][CanDispatchNow /\ ~CanDispatchNow' =>
          Len(dispatchLog') > Len(dispatchLog) \/ pc' = "exited"]_vars
  /\ CanDispatchNow ~> ~CanDispatchNow

\* C29 witness: under a crawl delay a unit has completed, work is queued, a
\* slot is free and the delay timer is pending.
C29_Witness ==
  /\ CanDispatchNow
  /\ crawlDelay > 0
  /\ microtasks = <<>>
  /\ timers > 0
  /\ Len(dispatchLog) >= 2
  /\ inflight = {}

\* C30 (the queue is FIFO): every step of a running pool dispatches the first
\* k entries of the queue (k >= 0), in queue order and with their queued
\* depths, and leaves the remaining entries in place as a prefix of the new
\* queue: discovered URLs go to the tail, nothing is reordered by depth, and
\* the seed order (or the depth-sorted order of a resume) is the dispatch
\* order.
C30_QueueIsFifo ==
  [][(pc \in {"ready", "pool"} /\ pc' \in {"pool", "done"}) =>
       LET n == Len(dispatchLog)
           k == Len(dispatchLog') - n
       IN /\ k >= 0 /\ k <= Len(queue)
          /\ SubSeq(dispatchLog', 1, n) = dispatchLog
          /\ \A i \in 1..k :
               /\ dispatchLog'[n + i].url = queue[i].url
               /\ dispatchLog'[n + i].depth = queue[i].depth
          /\ IsPrefix(SubSeq(queue, k + 1, Len(queue)), queue')]_vars

\* C30 witness: one worker; the seeds P1 and root were queued in that order,
\* P1's link P2 was appended behind the root, and the three were dispatched
\* P1, root, P2.
C30_Witness ==
  /\ concurrency = 1
  /\ runNo = 1
  /\ pc = "done"
  /\ Len(dispatchLog) = 3
  /\ dispatchLog[1].url = P1 /\ dispatchLog[1].depth = 0
  /\ dispatchLog[2].url = SiteRoot /\ dispatchLog[2].depth = 0
  /\ dispatchLog[3].url = P2 /\ dispatchLog[3].depth = 1

\* the URLs in the queue, and the URLs of the session that have a page row
QueuedUrls == {queue[i].url : i \in 1..Len(queue)}
PageUrls == {r.url : r \in {q \in db.pages : q.session_id = sessionId}}

\* C31 (frontier consistency): while a run is alive the queue holds no URL
\* twice, every queued URL is in seen and has a pending page row; and a step of
\* the pool adds the same URLs to seen, to the queue and to the page rows (as
\* pending): no state between two callbacks has one of the three without the
\* others.
C31_FrontierConsistent ==
  /\ [](pc \in {"ready", "pool"} =>
          /\ Cardinality(QueuedUrls) = Len(queue)
          /\ QueuedUrls \subseteq seen
          /\ \A u \in QueuedUrls : HasPage(u) /\ PageOf(u).status = "pending")
  /\ [][(pc = "pool" /\ pc' = "pool") =>
          /\ seen' \ seen = QueuedUrls' \ QueuedUrls
          /\ seen' \ seen = PageUrls' \ PageUrls
          /\ seen \subseteq seen']_vars

\* C31 witness: the root's unit completed while P1 was in flight; its link P2
\* is queued at depth 1, in seen and pending.
C31_Witness ==
  /\ pc = "pool"
  /\ queue = <<[url |-> P2, depth |-> 1]>>
  /\ P2 \in seen
  /\ PageOf(P2).status = "pending"
  /\ PageOf(SiteRoot).status = "crawled"
  /\ \E u \in inflight : u.url = P1

\* the three outcomes of fetchPage
IsSuccess(res) == res.status # NullInt /\ res.error = Null /\ res.redirectUrl = NoRef
IsRedirect(res) ==
  /\ res.status >= 300 /\ res.status < 400
  /\ res.redirectUrl # NoRef
  /\ res.error = Null
IsFailure(res) == res.status = NullInt /\ res.error # Null /\ res.redirectUrl = NoRef

\* C32 (fetchPage's outcomes): whatever axios did, the result of the latest
\* fetch is a success, a redirect or a failure; and when axios had a response
\* with a 3xx status and a Location header - handed back or attached to the
\* error it raised - the result is the redirect with that status and location.
C32_FetchOutcomes ==
  lastFetch.id # 0 =>
    LET o == lastFetch.raw
        res == lastFetch.res
    IN /\ IsSuccess(res) \/ IsRedirect(res) \/ IsFailure(res)
       /\ (o.response /\ o.status >= 300 /\ o.status < 400 /\ o.location # NoRef) =>
            /\ IsRedirect(res)
            /\ res.status = o.status
            /\ res.redirectUrl = o.location

\* the URLs the crawled pages of the session point to: the targets of their
\* internal links and their resolved redirect targets
DiscoveredTargets ==
  {l.row.target_url :
     l \in {k \in db.links : k.session_id = sessionId /\ ~k.row.is_external}}
  \cup {r.redirect_url :
          r \in {q \in db.pages : q.session_id = sessionId /\ q.status = "crawled"
                                   /\ q.redirect_url # NoUrl}}

\* C33 (no discovered URL is lost across an interruption): when a resumed run
\* has drained, every internal link target and every resolved redirect target
\* of a crawled page of the session has a page row, and that row is terminal.
C33_NoDiscoveredUrlLost ==
  (runNo > 1 /\ pc = "done") =>
    \A u \in DiscoveredTargets : HasPage(u) /\ PageOf(u).status # "pending"

\* C34 (every interrupted session is resumable): when an interruption signal
\* has ended the process - in the pool, or earlier while initSession was still
\* fetching robots.txt and the sitemap - the session is stored as interrupted
\* and is the one getLatestInterruptedSession gives to a resume.
C34_InterruptedSessionResumable ==
  pc \in {"exited", "killed"} =>
    /\ SessionStatus = "interrupted"
    /\ getLatestInterruptedSession(db) = sessionId

\* C35 (store/memory agreement): while the pool runs and no completion
\* handler is pending or executing, the URLs with a pending page row are the
\* queued URLs and the URLs in flight, and the URLs with a page row are all in
\* seen, and are all of seen in a run that was not resumed.
C35_StoreMemoryAgreement ==
  (pc = "pool" /\ microtasks = <<>>) =>
    /\ {r.url : r \in PendingPages} = QueuedUrls \cup {u.url : u \in inflight}
    /\ PageUrls \subseteq seen
    /\ runNo = 1 => PageUrls = seen

\* C36 (terminal statuses are absorbing): no step - of the run that made it,
\* of a resume, or of a resumed run - changes or removes a page row whose
\* status is crawled, error or skipped: status and result fields stay.
C36_TerminalAbsorbing ==
  [][\A r \in db.pages : r.status # "pending" => r \in db'.pages]_vars

\* C36 witness: a resumed run has drained; pages that were terminal at the
\* resume (a crawled one and one more) stand beside one the resumed run
\* dispatched and crawled.
C36_Witness ==
  /\ runNo = 2
  /\ pc = "done"
  /\ Cardinality(terminalAtResume) >= 2
  /\ \E u \in terminalAtResume : PageOf(u).status = "crawled"
  /\ \E i \in 1..Len(dispatchLog) :
       /\ dispatchLog[i].run = 2
       /\ PageOf(dispatchLog[i].url).status = "crawled"

\* C37 (no store operation after close): once the store handle is closed,
\* nothing is left that would call the store - no unit in flight, no queued
\* URL a timer could dispatch, no completion handler - and while it stays
\* closed no step dispatches a unit or changes the store, a crawl-delay timer
\* firing after crawl() has finished included.
C37_NoStoreUseAfterClose ==
  /\ [](db.closed => inflight = {} /\ queue = <<>> /\ microtasks = <<>>)
  /\ [][(db.closed /\ db'.closed) => db' = db /\ dispatchLog' = dispatchLog]_vars

\* C37 witness: under a crawl delay crawl() has finished and closed the store,
\* and the delay timer of the last unit has fired since.
C37_Witness ==
  /\ pc = "done"
  /\ db.closed
  /\ crawlDelay > 0
  /\ timers = 0
  /\ Len(dispatchLog) >= 2

\* C38 (the pool completes for every configured concurrency): whatever
\* loadConfig makes of CONCURRENCY, a started pool that has nothing left to
\* run has fired its completion signal, and the process does not end with the
\* pool started and the session still running.
C38_PoolCompletesForAnyConcurrency ==
  /\ (pc = "pool" /\ inflight = {} /\ microtasks = <<>> /\ timers = 0) => resolved
  /\ pc \in {"done", "drained"} => SessionStatus # "running"

====
